---- MODULE Spec2Model ----
(***************************************************************************)
(* Model of the consensus validation core of reth and its collaborators:   *)
(*   crates/consensus/consensus/src/lib.rs                                 *)
(*     - Consensus::validate_header_range (the provided range algorithm),  *)
(*       run alone (Spec) and from several threads (SpecConc)              *)
(*     - ConsensusError, its Display implementation, is_state_root_error   *)
(*       and HeaderConsensusError (SpecErr)                                *)
(*   crates/evm/execution-errors/src/trie.rs                               *)
(*     - the conversions of the trie errors (SpecTrie)                     *)
(*   crates/node/builder/src/launch/exex.rs                                *)
(*     - ExExLauncher::launch (SpecExEx)                                   *)
(***************************************************************************)
EXTENDS Integers, Sequences, FiniteSets, TLC

(***************************************************************************)
(* Bounds                                                                  *)
(***************************************************************************)
\* highest block number of a header handed to the range algorithm
MaxNumber == 2
\* longest header slice handed to validate_header_range
MaxLen == 3
\* most (child, parent) pairs the validator under test rejects
MaxBadPairs == 2
\* payload values (digests, gas amounts) range over 0..MaxVal
MaxVal == 2
\* longest header slice handed to each of the concurrent range calls
MaxConcLen == 2
\* most headers, and most pairs, the validator shared by them rejects
MaxConcBad == 1
\* most execution extensions installed on the node
MaxExts == 3

VARIABLES
    headers,    \* the slice `headers: &[SealedHeader]` of the running call
    badH,       \* the validator: headers its validate_header rejects
    badP,       \* the validator: <<header, parent>> pairs it rejects
    pc,         \* position of validate_header_range
    idx,        \* 1-based position of `child` in `headers`
    parent,     \* the local `parent`
    result,     \* the value validate_header_range returned
    calls,      \* the trait-method calls made so far, in order
    error,      \* a ConsensusError value under inspection
    message,    \* what Display wrote for `error`
    built,      \* the arguments `error` was constructed from
    answer,     \* what is_state_root_error answered for `error`
    hce,        \* a HeaderConsensusError built around `error`
    hmessage,   \* what Display wrote for `hce`
    runs,       \* concurrent validate_header_range calls: their slice,
                \* position, result and the calls each has made
    locals,     \* the stack slot holding the local `parent` of each call
    trie_in,    \* a trie error about to be converted
    trie_out,   \* the error the conversion returned
    extensions,     \* ExExLauncher.extensions: the ids of the installed ExExes
    lpc,            \* position of ExExLauncher::launch
    exex_handles,   \* the local Vec `exex_handles`
    exexs,          \* the local Vec `exexs`: one future per extension
    tasks,          \* the critical tasks spawned on the executor, in order
    exex_manager,   \* the ExExManager created by launch
    subscriptions,  \* canonical-state subscriptions taken from the provider
    returned        \* the value launch returned

rangeVars == <<headers, badH, badP, pc, idx, parent, result, calls>>
errorVars == <<error, message, built, answer, hce, hmessage>>
concVars == <<runs, locals>>
trieVars == <<trie_in, trie_out>>
exexVars == <<extensions, lpc, exex_handles, exexs, tasks, exex_manager,
              subscriptions, returned>>
vars == <<rangeVars, errorVars, concVars, trieVars, exexVars>>
\* everything validate_header_range does not touch
outsideRange == <<errorVars, concVars, trieVars, exexVars>>
\* everything the error values do not touch
outsideError == <<rangeVars, concVars, trieVars, exexVars>>
\* everything concurrent range calls do not touch
outsideConc == <<rangeVars, errorVars, trieVars, exexVars>>
\* everything the trie error conversions do not touch
outsideTrie == <<rangeVars, errorVars, concVars, exexVars>>
\* everything ExExLauncher::launch does not touch
outsideExEx == <<rangeVars, errorVars, concVars, trieVars>>

(***************************************************************************)
(* Data model                                                              *)
(***************************************************************************)
\* a SealedHeader, identified by its block number (the hash is derived from it)
SealedHeaders == [number : 0..MaxNumber]

\* placeholder for "no header" (an unset local, the absent parent of a call)
NoHeader == [number |-> -1]

\* Result<(), ConsensusError>
Ok == [ok |-> TRUE]
Err(e) == [ok |-> FALSE, err |-> e]

\* HeaderConsensusError::new
HeaderConsensusErrorNew(consensus_error, sealed_header) ==
    [consensus_error |-> consensus_error, sealed_header |-> sealed_header]

\* all sequences over S of length at most n
SeqsUpTo(S, n) == UNION {[1..k -> S] : k \in 0..n}

(***************************************************************************)
(* The validator under test.  The trait leaves validate_header and         *)
(* validate_header_against_parent to the implementation; here they are any *)
(* deterministic pair of functions, fixed by (badH, badP).  Every failing  *)
(* call returns an error that identifies the call, so that errors of       *)
(* different calls are never confused.                                     *)
(***************************************************************************)
validate_header(bh, header) ==
    IF header \in bh
      THEN Err([variant |-> "ExtraDataExceedsMax", len |-> header.number])
      ELSE Ok

validate_header_against_parent(bp, header, par) ==
    IF <<header, par>> \in bp
      THEN Err([variant |-> "ParentBlockNumberMismatch",
                parent_block_number |-> par.number,
                block_number |-> header.number])
      ELSE Ok

\* entries of the call log; pos is the position in `headers` of the header
\* the loop was at when the call was made
CallHeader(pos, header) ==
    [op |-> "validate_header", pos |-> pos, header |-> header,
     parent |-> NoHeader]
CallAgainstParent(pos, header, par) ==
    [op |-> "validate_header_against_parent", pos |-> pos, header |-> header,
     parent |-> par]

(***************************************************************************)
(* validate_header_range, one step per trait-method call                   *)
(***************************************************************************)
Pending == [tag |-> "Pending"]
ReturnOk == [tag |-> "Ok"]
ReturnErr(e) == [tag |-> "Err", err |-> e]

\* the `?` operator: an Err result is returned to the caller at once
Propagates_Never(r) == FALSE
Propagates(r) == ~r.ok

\* line 80: `if let Some(..) = headers.split_first()` does not match an
\* empty slice, and control falls to the final Ok(()) of line 91
OnEmpty_Panic == [tag |-> "Panic"]
OnEmpty == ReturnOk

\* line 80: remaining_headers is the slice without its first element, so the
\* loop of line 84 begins at position 2
RemainingStart_All == 2 - 1
RemainingStart == 2

\* line 82: map_err(|e| HeaderConsensusError::new(e, initial_header.clone()))
MapErrInitial_Last(e, initial_header) ==
    HeaderConsensusErrorNew(e, headers[Len(headers)])
MapErrInitial(e, initial_header) ==
    HeaderConsensusErrorNew(e, initial_header)

\* line 85: map_err(|e| HeaderConsensusError::new(e, child.clone()))
MapErrChild(e, child) == HeaderConsensusErrorNew(e, child)

\* line 87: map_err(|e| HeaderConsensusError::new(e, child.clone()))
MapErrAgainstParent_Parent(e, child, par) == HeaderConsensusErrorNew(e, par)
MapErrAgainstParent(e, child, par) == HeaderConsensusErrorNew(e, child)

\* line 86: the arguments of self.validate_header_against_parent(child, parent)
AgainstParentArgs_Swapped(child, par) == [header |-> par, parent |-> child]
AgainstParentArgs_Self(child, par) == [header |-> child, parent |-> child]
AgainstParentArgs(child, par) == [header |-> child, parent |-> par]

\* line 88: parent = child
NextParent_Stale(par, child) == par
NextParent(par, child) == child

\* line 84: the for loop moves to the next element of remaining_headers
NextIdx_Skip(i) == i + 2
NextIdx(i) == i + 1

\* lines 80-83: split_first, validate_header(initial_header)
ValidateInitial ==
    /\ pc = "start"
    /\ IF headers = <<>>
         THEN /\ pc' = "done"
              /\ result' = OnEmpty
              /\ UNCHANGED <<idx, parent, calls>>
         ELSE LET initial_header == Head(headers)
                  r == validate_header(badH, initial_header)
              IN  /\ calls' = Append(calls, CallHeader(1, initial_header))
                  /\ IF Propagates(r)
                       THEN /\ result' = ReturnErr(
                                   MapErrInitial(r.err, initial_header))
                            /\ pc' = "done"
                            /\ UNCHANGED <<idx, parent>>
                       ELSE /\ parent' = initial_header
                            /\ idx' = RemainingStart
                            /\ pc' = "for"
                            /\ UNCHANGED result
    /\ UNCHANGED <<headers, badH, badP, outsideRange>>

\* lines 84-85: next child of remaining_headers, validate_header(child)
ValidateChild ==
    /\ pc = "for"
    /\ idx <= Len(headers)
    /\ LET child == headers[idx]
           r == validate_header(badH, child)
       IN  /\ calls' = Append(calls, CallHeader(idx, child))
           /\ IF Propagates(r)
                THEN /\ result' = ReturnErr(MapErrChild(r.err, child))
                     /\ pc' = "done"
                ELSE /\ pc' = "against_parent"
                     /\ UNCHANGED result
    /\ UNCHANGED <<headers, badH, badP, idx, parent, outsideRange>>

\* lines 86-88: validate_header_against_parent(child, parent); parent = child
ValidateAgainstParent ==
    /\ pc = "against_parent"
    /\ LET child == headers[idx]
           args == AgainstParentArgs(child, parent)
           r == validate_header_against_parent(badP, args.header, args.parent)
       IN  /\ calls' = Append(calls,
                          CallAgainstParent(idx, args.header, args.parent))
           /\ IF Propagates(r)
                THEN /\ result' = ReturnErr(
                            MapErrAgainstParent(r.err, child, parent))
                     /\ pc' = "done"
                     /\ UNCHANGED <<idx, parent>>
                ELSE /\ parent' = NextParent(parent, child)
                     /\ idx' = NextIdx(idx)
                     /\ pc' = "for"
                     /\ UNCHANGED result
    /\ UNCHANGED <<headers, badH, badP, outsideRange>>

\* lines 84, 91: remaining_headers exhausted, Ok(())
ReturnOkAtEnd ==
    /\ pc = "for"
    /\ idx > Len(headers)
    /\ result' = ReturnOk
    /\ pc' = "done"
    /\ UNCHANGED <<headers, badH, badP, idx, parent, calls, outsideRange>>

NoError == [variant |-> "None"]

InitRange ==
    /\ headers \in SeqsUpTo(SealedHeaders, MaxLen)
    /\ badH \in SUBSET SealedHeaders
    /\ badP \in {bp \in SUBSET (SealedHeaders \X SealedHeaders) :
                    Cardinality(bp) <= MaxBadPairs}
    /\ pc = "start"
    /\ idx = 1
    /\ parent = NoHeader
    /\ result = Pending
    /\ calls = <<>>

\* no HeaderConsensusError yet
NoHce == HeaderConsensusErrorNew(NoError, NoHeader)

\* nothing constructed yet
NoBuilt == [variant |-> "None", diff |-> FALSE, got |-> 0, expected |-> 0,
            state_root |-> FALSE, header |-> NoHeader]

\* no error value is under inspection
ErrorIdle ==
    /\ error = NoError
    /\ message = <<>>
    /\ built = NoBuilt
    /\ answer = [asked |-> FALSE, value |-> FALSE]
    /\ hce = NoHce
    /\ hmessage = <<>>

\* no range call is running
RangeIdle ==
    /\ headers = <<>>
    /\ badH = {}
    /\ badP = {}
    /\ pc = "idle"
    /\ idx = 1
    /\ parent = NoHeader
    /\ result = Pending
    /\ calls = <<>>

\* the threads calling validate_header_range on the shared validator
RunIds == {"a", "b"}

\* no concurrent range calls
ConcIdle ==
    /\ runs = [r \in RunIds |-> [headers |-> <<>>, pc |-> "idle", idx |-> 1,
                                  result |-> Pending, calls |-> <<>>]]
    /\ locals = [r \in RunIds |-> NoHeader]

\* no trie error, no conversion result
NoTrieError == [type |-> "None"]
NoTrieOut == [variant |-> "None"]

\* no conversion is under way
TrieIdle ==
    /\ trie_in = NoTrieError
    /\ trie_out = NoTrieOut

\* no ExExManager
NoManager == [handles |-> <<>>, capacity |-> 0]

\* no launcher
ExExIdle ==
    /\ extensions = <<>>
    /\ lpc = "idle"
    /\ exex_handles = <<>>
    /\ exexs = <<>>
    /\ tasks = <<>>
    /\ exex_manager = NoManager
    /\ subscriptions = 0
    /\ returned = [tag |-> "Pending"]

Init ==
    /\ InitRange
    /\ ErrorIdle
    /\ ConcIdle
    /\ TrieIdle
    /\ ExExIdle

Next ==
    \/ ValidateInitial
    \/ ValidateChild
    \/ ValidateAgainstParent
    \/ ReturnOkAtEnd

Spec == Init /\ [][Next]_vars

(***************************************************************************)
(* ConsensusError (lines 131-344).  Tuple variants keep their payload in   *)
(* field f0; struct variants keep the field names of the source.           *)
(***************************************************************************)
\* values of B256, Bloom, u64, usize, BlockNumber payloads
Vals == 0..MaxVal

\* GotExpected<T> / GotExpectedBoxed<T>
GotExpected == [got : Vals, expected : Vals]

\* gas_spent_by_tx: Vec<(u64, u64)>
GasSpentByTx == {<<>>, <<<<0, MaxVal>>>>}

\* InvalidTransactionError (reth_primitives), opaque to this crate
InvalidTransactionErrors == [kind : {"NonceNotConsistent", "ChainIdMismatch"}]

\* variants carrying one GotExpectedBoxed<B256> or GotExpectedBoxed<Bloom>
BoxedDiffVariants ==
    {"BodyOmmersHashDiff", "BodyStateRootDiff", "BodyTransactionRootDiff",
     "BodyReceiptRootDiff", "BodyBloomLogDiff", "BodyWithdrawalsRootDiff",
     "BodyRequestsRootDiff", "ParentHashMismatch"}

\* variants carrying one GotExpected<u64>
PlainDiffVariants == {"BlobGasUsedDiff", "BaseFeeDiff"}

\* variants without payload
UnitVariants ==
    {"BaseFeeMissing", "TransactionSignerRecoveryError",
     "TheMergeDifficultyIsNotZero", "TheMergeNonceIsNotZero",
     "TheMergeOmmerRootIsNotEmpty", "WithdrawalsRootMissing",
     "RequestsRootMissing", "WithdrawalsRootUnexpected",
     "RequestsRootUnexpected", "BodyWithdrawalsMissing", "BodyRequestsMissing",
     "BlobGasUsedMissing", "BlobGasUsedUnexpected", "ExcessBlobGasMissing",
     "ExcessBlobGasUnexpected", "ParentBeaconBlockRootMissing",
     "ParentBeaconBlockRootUnexpected"}

ConsensusErrors ==
    [variant : {"HeaderGasUsedExceedsGasLimit"}, gas_used : Vals, gas_limit : Vals]
    \cup [variant : {"BlockGasUsed"}, gas : GotExpected,
          gas_spent_by_tx : GasSpentByTx]
    \cup [variant : BoxedDiffVariants, f0 : GotExpected]
    \cup [variant : {"BlockKnown"}, hash : Vals, number : Vals]
    \cup [variant : {"ParentUnknown"}, hash : Vals]
    \cup [variant : {"ParentBlockNumberMismatch"}, parent_block_number : Vals,
          block_number : Vals]
    \cup [variant : {"TimestampIsInFuture"}, timestamp : Vals,
          present_timestamp : Vals]
    \cup [variant : {"ExtraDataExceedsMax"}, len : Vals]
    \cup [variant : UnitVariants]
    \cup [variant : {"BlobGasUsedExceedsMaxBlobGasPerBlock"}, blob_gas_used : Vals,
          max_blob_gas_per_block : Vals]
    \cup [variant : {"BlobGasUsedNotMultipleOfBlobGasPerBlob"},
          blob_gas_used : Vals, blob_gas_per_blob : Vals]
    \cup [variant : {"ExcessBlobGasNotMultipleOfBlobGasPerBlob"},
          excess_blob_gas : Vals, blob_gas_per_blob : Vals]
    \cup [variant : PlainDiffVariants, f0 : GotExpected]
    \cup [variant : {"InvalidTransaction"}, f0 : InvalidTransactionErrors]
    \cup [variant : {"ExcessBlobGasDiff"}, diff : GotExpected,
          parent_excess_blob_gas : Vals, parent_blob_gas_used : Vals]
    \cup [variant : {"GasLimitInvalidIncrease"}, parent_gas_limit : Vals,
          child_gas_limit : Vals]
    \cup [variant : {"GasLimitInvalidMinimum"}, child_gas_limit : Vals]
    \cup [variant : {"GasLimitInvalidDecrease"}, parent_gas_limit : Vals,
          child_gas_limit : Vals]
    \cup [variant : {"TimestampIsInPast"}, parent_timestamp : Vals,
          timestamp : Vals]

(***************************************************************************)
(* Rendering.  A rendered message is the sequence of the pieces written to *)
(* the formatter: literal text, a u64 in decimal, a digest in hex.         *)
(***************************************************************************)
Lit(text) == [kind |-> "lit", text |-> text, val |-> 0]
\* Display of u64 / usize
Dec(v) == [kind |-> "dec", text |-> "", val |-> v]
\* Display of B256 / Bloom
Hex(v) == [kind |-> "hex", text |-> "0x", val |-> v]

\* reth_primitives::constants::MINIMUM_GAS_LIMIT
MINIMUM_GAS_LIMIT == 5000

\* Display of GotExpected<T>: "got {got}, expected {expected}"
\* (kind is the Display of T: "dec" for u64, "hex" for B256)
GotExpectedFmt(ge, kind) ==
    <<Lit("got "), IF kind = "hex" THEN Hex(ge.got) ELSE Dec(ge.got),
      Lit(", expected "),
      IF kind = "hex" THEN Hex(ge.expected) ELSE Dec(ge.expected)>>

\* Debug of Vec<(u64, u64)>: "[(a, b), (c, d)]"
RECURSIVE DebugPairs(_)
DebugPairs(list) ==
    IF list = <<>> THEN <<>>
    ELSE <<Lit("("), Dec(Head(list)[1]), Lit(", "), Dec(Head(list)[2]), Lit(")")>>
         \o (IF Tail(list) = <<>> THEN <<>> ELSE <<Lit(", ")>>)
         \o DebugPairs(Tail(list))
DebugVec(list) == <<Lit("[")>> \o DebugPairs(list) \o <<Lit("]")>>

\* impl fmt::Display for ConsensusError (lines 349-451)
Display(e) ==
    CASE e.variant = "HeaderGasUsedExceedsGasLimit" ->
           <<Lit("block used gas ("), Dec(e.gas_used),
             Lit(") is greater than gas limit ("), Dec(e.gas_limit), Lit(")")>>
      [] e.variant = "BlockGasUsed" ->
           <<Lit("block gas used mismatch: ")>> \o GotExpectedFmt(e.gas, "dec")
           \o <<Lit("; gas spent by each transaction: ")>>
           \o DebugVec(e.gas_spent_by_tx)
      [] e.variant = "BodyOmmersHashDiff" ->
           <<Lit("mismatched block ommer hash: "), Hex(e.f0.got)>>
      [] e.variant = "BodyStateRootDiff" ->
           <<Lit("mismatched block state root: "), Hex(e.f0.got)>>
      [] e.variant = "BodyTransactionRootDiff" ->
           <<Lit("mismatched block transaction root: "), Hex(e.f0.got)>>
      [] e.variant = "BodyReceiptRootDiff" ->
           <<Lit("mismatched block requests root: "), Hex(e.f0.got)>>
      [] e.variant = "BodyBloomLogDiff" ->
           <<Lit("header bloom filter mismatch: "), Hex(e.f0.got)>>
      [] e.variant = "BodyWithdrawalsRootDiff" ->
           <<Lit("mismatched block withdrawals root: "), Hex(e.f0.got)>>
      [] e.variant = "BodyRequestsRootDiff" ->
           <<Lit("mismatched block requests root: "), Hex(e.f0.got)>>
      [] e.variant = "BlockKnown" ->
           <<Lit("block with [hash="), Hex(e.hash), Lit(", number="),
             Dec(e.number), Lit("] is already known")>>
      [] e.variant = "ParentUnknown" ->
           <<Lit("block parent [hash="), Hex(e.hash), Lit("] is not known")>>
      [] e.variant = "ParentBlockNumberMismatch" ->
           <<Lit("block number "), Dec(e.block_number),
             Lit(" does not match parent block number "),
             Dec(e.parent_block_number)>>
      [] e.variant = "ParentHashMismatch" ->
           <<Lit("mismatched parent hash: "), Hex(e.f0.got)>>
      [] e.variant = "TimestampIsInFuture" ->
           <<Lit("block timestamp "), Dec(e.timestamp),
             Lit(" is in the future compared to our clock time "),
             Dec(e.present_timestamp)>>
      [] e.variant = "BaseFeeMissing" -> <<Lit("base fee missing")>>
      [] e.variant = "TransactionSignerRecoveryError" ->
           <<Lit("transaction signer recovery error")>>
      [] e.variant = "ExtraDataExceedsMax" ->
           <<Lit("extra data "), Dec(e.len), Lit(" exceeds max length")>>
      [] e.variant = "TheMergeDifficultyIsNotZero" ->
           <<Lit("difficulty after merge is not zero")>>
      [] e.variant = "TheMergeNonceIsNotZero" ->
           <<Lit("nonce after merge is not zero")>>
      [] e.variant = "TheMergeOmmerRootIsNotEmpty" ->
           <<Lit("ommer root after merge is not empty")>>
      [] e.variant = "WithdrawalsRootMissing" -> <<Lit("missing withdrawals root")>>
      [] e.variant = "RequestsRootMissing" -> <<Lit("missing requests root")>>
      [] e.variant = "WithdrawalsRootUnexpected" ->
           <<Lit("unexpected withdrawals root")>>
      [] e.variant = "RequestsRootUnexpected" -> <<Lit("unexpected requests root")>>
      [] e.variant = "BodyWithdrawalsMissing" -> <<Lit("missing withdrawals")>>
      [] e.variant = "BodyRequestsMissing" -> <<Lit("missing requests")>>
      [] e.variant = "BlobGasUsedMissing" -> <<Lit("missing blob gas used")>>
      [] e.variant = "BlobGasUsedUnexpected" -> <<Lit("unexpected blob gas used")>>
      [] e.variant = "ExcessBlobGasMissing" -> <<Lit("missing excess blob gas")>>
      [] e.variant = "ExcessBlobGasUnexpected" ->
           <<Lit("unexpected excess blob gas")>>
      [] e.variant = "ParentBeaconBlockRootMissing" ->
           <<Lit("missing parent beacon block root")>>
      [] e.variant = "ParentBeaconBlockRootUnexpected" ->
           <<Lit("unexpected parent beacon block root")>>
      [] e.variant = "BlobGasUsedExceedsMaxBlobGasPerBlock" ->
           <<Lit("blob gas used "), Dec(e.blob_gas_used),
             Lit(" exceeds maximum allowance "), Dec(e.max_blob_gas_per_block)>>
      [] e.variant = "BlobGasUsedNotMultipleOfBlobGasPerBlob" ->
           <<Lit("blob gas used "), Dec(e.blob_gas_used),
             Lit(" is not a multiple of blob gas per blob "),
             Dec(e.blob_gas_per_blob)>>
      [] e.variant = "ExcessBlobGasNotMultipleOfBlobGasPerBlob" ->
           <<Lit("excess blob gas "), Dec(e.excess_blob_gas),
             Lit(" is not a multiple of blob gas per blob "),
             Dec(e.blob_gas_per_blob)>>
      [] e.variant = "BlobGasUsedDiff" ->
           <<Lit("blob gas used mismatch: "), Dec(e.f0.got)>>
      [] e.variant = "InvalidTransaction" -> <<Lit("invalid transaction")>>
      [] e.variant = "BaseFeeDiff" ->
           <<Lit("block base fee mismatch: ")>> \o GotExpectedFmt(e.f0, "dec")
      [] e.variant = "ExcessBlobGasDiff" ->
           <<Lit("invalid excess blob gas: ")>> \o GotExpectedFmt(e.diff, "dec")
           \o <<Lit("; parent excess blob gas: "), Dec(e.parent_excess_blob_gas),
                Lit(", parent blob gas used: "), Dec(e.parent_blob_gas_used)>>
      [] e.variant = "GasLimitInvalidIncrease" ->
           <<Lit("child gas_limit "), Dec(e.child_gas_limit),
             Lit(" max increase is "), Dec(e.parent_gas_limit), Lit("/1024")>>
      [] e.variant = "GasLimitInvalidMinimum" ->
           <<Lit("child gas limit "), Dec(e.child_gas_limit),
             Lit(" is below the minimum allowed limit ("),
             Dec(MINIMUM_GAS_LIMIT), Lit(")")>>
      [] e.variant = "GasLimitInvalidDecrease" ->
           <<Lit("child gas_limit "), Dec(e.child_gas_limit),
             Lit(" max decrease is "), Dec(e.parent_gas_limit), Lit("/1024")>>
      [] e.variant = "TimestampIsInPast" ->
           <<Lit("block timestamp "), Dec(e.timestamp),
             Lit(" is in the past compared to the parent timestamp "),
             Dec(e.parent_timestamp)>>

\* ConsensusError::is_state_root_error (lines 455-457)
is_state_root_error_AnyRoot(e) ==
    e.variant \in {"BodyStateRootDiff", "BodyTransactionRootDiff",
                   "BodyReceiptRootDiff", "BodyWithdrawalsRootDiff",
                   "BodyRequestsRootDiff"}
is_state_root_error(e) == e.variant = "BodyStateRootDiff"

\* Display of SealedHeader: the header's identity
SealedHeaderFmt(h) == <<Lit("number="), Dec(h.number)>>

\* impl fmt::Display for HeaderConsensusError (lines 483-489)
HeaderConsensusErrorDisplay_NoHeader(x) ==
    <<Lit("Consensus error: ")>> \o Display(x.consensus_error)
HeaderConsensusErrorDisplay(x) ==
    <<Lit("Consensus error: ")>> \o Display(x.consensus_error)
    \o <<Lit(", Invalid header: ")>> \o SealedHeaderFmt(x.sealed_header)

\* constructing a Diff-style variant from the observed and expected value
\* (and, for the two struct variants, their other fields)
DiffError_Swapped(variant, got, expected, rest) ==
    CASE variant = "BlockGasUsed" ->
           [variant |-> variant, gas |-> [got |-> expected, expected |-> got],
            gas_spent_by_tx |-> rest.gas_spent_by_tx]
      [] variant = "ExcessBlobGasDiff" ->
           [variant |-> variant, diff |-> [got |-> expected, expected |-> got],
            parent_excess_blob_gas |-> rest.parent_excess_blob_gas,
            parent_blob_gas_used |-> rest.parent_blob_gas_used]
      [] OTHER -> [variant |-> variant, f0 |-> [got |-> expected, expected |-> got]]
DiffError(variant, got, expected, rest) ==
    CASE variant = "BlockGasUsed" ->
           [variant |-> variant, gas |-> [got |-> got, expected |-> expected],
            gas_spent_by_tx |-> rest.gas_spent_by_tx]
      [] variant = "ExcessBlobGasDiff" ->
           [variant |-> variant, diff |-> [got |-> got, expected |-> expected],
            parent_excess_blob_gas |-> rest.parent_excess_blob_gas,
            parent_blob_gas_used |-> rest.parent_blob_gas_used]
      [] OTHER -> [variant |-> variant, f0 |-> [got |-> got, expected |-> expected]]

\* the Diff-style variants: those carrying a GotExpected or GotExpectedBoxed
DiffVariants == BoxedDiffVariants \cup PlainDiffVariants
                  \cup {"BlockGasUsed", "ExcessBlobGasDiff"}

\* a Diff-style error is created at the point of failure
ConstructDiff ==
    /\ pc = "idle"
    /\ error = NoError
    /\ \E variant \in DiffVariants, got \in Vals, expected \in Vals,
          rest \in [gas_spent_by_tx : GasSpentByTx,
                    parent_excess_blob_gas : Vals, parent_blob_gas_used : Vals] :
          /\ error' = DiffError(variant, got, expected, rest)
          /\ built' = [variant |-> variant, diff |-> TRUE, got |-> got,
                       expected |-> expected,
                       state_root |-> is_state_root_error(error'),
                       header |-> NoHeader]
    /\ UNCHANGED <<message, answer, hce, hmessage, outsideError>>

\* any other error is created at the point of failure
ConstructOther ==
    /\ pc = "idle"
    /\ error = NoError
    /\ \E e \in ConsensusErrors :
          /\ e.variant \notin DiffVariants
          /\ error' = e
          /\ built' = [variant |-> e.variant, diff |-> FALSE, got |-> 0,
                       expected |-> 0,
                       state_root |-> is_state_root_error(error'),
                       header |-> NoHeader]
    /\ UNCHANGED <<message, answer, hce, hmessage, outsideError>>

\* to_string(): Display writes the message of `error`; the error is borrowed
Fmt ==
    /\ pc = "idle"
    /\ error # NoError
    /\ message = <<>>
    /\ message' = Display(error)
    /\ UNCHANGED <<error, built, answer, hce, hmessage, outsideError>>

\* a caller asks is_state_root_error(&self)
IsStateRootError ==
    /\ pc = "idle"
    /\ error # NoError
    /\ ~answer.asked
    /\ answer' = [asked |-> TRUE, value |-> is_state_root_error(error)]
    /\ UNCHANGED <<error, message, built, hce, hmessage, outsideError>>

\* HeaderConsensusError::new(error.clone(), header)
NewHeaderConsensusError ==
    /\ pc = "idle"
    /\ error # NoError
    /\ hce = NoHce
    /\ \E h \in SealedHeaders :
          /\ hce' = HeaderConsensusErrorNew(error, h)
          /\ built' = [built EXCEPT !.header = h]
    /\ UNCHANGED <<error, message, answer, hmessage, outsideError>>

\* to_string() of the HeaderConsensusError
FmtHeaderConsensusError ==
    /\ pc = "idle"
    /\ hce # NoHce
    /\ hmessage = <<>>
    /\ hmessage' = HeaderConsensusErrorDisplay(hce)
    /\ UNCHANGED <<error, message, built, answer, hce, outsideError>>

\* no error value has been constructed yet; no range call runs
InitErr ==
    /\ RangeIdle
    /\ ErrorIdle
    /\ ConcIdle
    /\ TrieIdle
    /\ ExExIdle

NextErr ==
    \/ ConstructDiff
    \/ ConstructOther
    \/ Fmt
    \/ IsStateRootError
    \/ NewHeaderConsensusError
    \/ FmtHeaderConsensusError

SpecErr == InitErr /\ [][NextErr]_vars

(***************************************************************************)
(* validate_header_range as a function of one call frame                   *)
(* f = [headers, pc, idx, parent, result, calls]: RangeStep runs the frame *)
(* up to and including its next trait-method call, RangeRun runs a call    *)
(* from entry to return.                                                   *)
(***************************************************************************)
RangeStep(bh, bp, f) ==
    CASE f.pc = "start" ->
           IF f.headers = <<>>
             THEN [f EXCEPT !.pc = "done", !.result = ReturnOk]
             ELSE LET initial_header == Head(f.headers)
                      r == validate_header(bh, initial_header)
                      g == [f EXCEPT !.calls =
                                Append(@, CallHeader(1, initial_header))]
                  IN  IF r.ok
                        THEN [g EXCEPT !.parent = initial_header, !.idx = 2,
                                       !.pc = "for"]
                        ELSE [g EXCEPT !.pc = "done",
                                       !.result = ReturnErr(HeaderConsensusErrorNew(
                                                      r.err, initial_header))]
      [] f.pc = "for" ->
           IF f.idx > Len(f.headers)
             THEN [f EXCEPT !.pc = "done", !.result = ReturnOk]
             ELSE LET child == f.headers[f.idx]
                      r == validate_header(bh, child)
                      g == [f EXCEPT !.calls = Append(@, CallHeader(f.idx, child))]
                  IN  IF r.ok
                        THEN [g EXCEPT !.pc = "against_parent"]
                        ELSE [g EXCEPT !.pc = "done",
                                       !.result = ReturnErr(HeaderConsensusErrorNew(
                                                      r.err, child))]
      [] f.pc = "against_parent" ->
           LET child == f.headers[f.idx]
               r == validate_header_against_parent(bp, child, f.parent)
               g == [f EXCEPT !.calls =
                         Append(@, CallAgainstParent(f.idx, child, f.parent))]
           IN  IF r.ok
                 THEN [g EXCEPT !.parent = child, !.idx = f.idx + 1, !.pc = "for"]
                 ELSE [g EXCEPT !.pc = "done",
                                !.result = ReturnErr(HeaderConsensusErrorNew(
                                               r.err, child))]

\* the frame of a call that has just been entered with the slice hs
EntryFrame(hs) ==
    [headers |-> hs, pc |-> "start", idx |-> 1, parent |-> NoHeader,
     result |-> Pending, calls |-> <<>>]

RECURSIVE RunToReturn(_, _, _)
RunToReturn(bh, bp, f) ==
    IF f.pc = "done" THEN f ELSE RunToReturn(bh, bp, RangeStep(bh, bp, f))

\* validate_header_range(hs) run alone: its frame at return
RangeRun(bh, bp, hs) == RunToReturn(bh, bp, EntryFrame(hs))

(***************************************************************************)
(* Concurrent calls of validate_header_range on one validator (&self; the  *)
(* trait is Send + Sync).  Each call has its own frame; the validator is   *)
(* only read.                                                              *)
(***************************************************************************)
\* the local `parent` of a call lives in that call's own stack frame
ParentSlot_Shared(r) == "a"
ParentSlot(r) == r

\* thread r advances its call to the next trait-method call or to return
RunStep(r) ==
    /\ runs[r].pc \in {"start", "for", "against_parent"}
    /\ LET f == [headers |-> runs[r].headers, pc |-> runs[r].pc,
                 idx |-> runs[r].idx, parent |-> locals[ParentSlot(r)],
                 result |-> runs[r].result, calls |-> runs[r].calls]
           g == RangeStep(badH, badP, f)
       IN  /\ runs' = [runs EXCEPT ![r] =
                          [headers |-> g.headers, pc |-> g.pc, idx |-> g.idx,
                           result |-> g.result, calls |-> g.calls]]
           /\ locals' = [locals EXCEPT ![ParentSlot(r)] = g.parent]
    /\ UNCHANGED outsideConc

\* every thread has entered validate_header_range with a slice of its own
InitConc ==
    /\ headers = <<>>
    /\ badH \in {bh \in SUBSET SealedHeaders : Cardinality(bh) <= MaxConcBad}
    /\ badP \in {bp \in SUBSET (SealedHeaders \X SealedHeaders) :
                    Cardinality(bp) <= MaxConcBad}
    /\ pc = "idle"
    /\ idx = 1
    /\ parent = NoHeader
    /\ result = Pending
    /\ calls = <<>>
    /\ ErrorIdle
    /\ runs \in [RunIds -> [headers : SeqsUpTo(SealedHeaders, MaxConcLen),
                            pc : {"start"}, idx : {1}, result : {Pending},
                            calls : {<<>>}]]
    /\ locals = [r \in RunIds |-> NoHeader]
    /\ TrieIdle
    /\ ExExIdle

NextConc == \E r \in RunIds : RunStep(r)

SpecConc == InitConc /\ [][NextConc]_vars

(***************************************************************************)
(* Trie errors and their conversions                                       *)
(*   crates/evm/execution-errors/src/trie.rs                               *)
(*   crates/storage/errors/src/provider.rs                                 *)
(***************************************************************************)
\* reth_storage_errors::db::DatabaseError, opaque here
DatabaseErrors == [kind : {"Open", "Read", "Write", "Commit"}, code : Vals]

\* alloy_rlp::Error, opaque here
RlpErrors ==
    [kind : {"Overflow", "LeadingZero", "InputTooShort", "UnexpectedLength"}]
    \cup [kind : {"ListLengthMismatch"}, expected : Vals, got : Vals]

\* nybbles::Nibbles
NibblesSet == {<<>>, <<1>>, <<1, MaxVal>>}

\* enum StorageRootError (trie.rs lines 44-48)
StorageRootErrors == [variant : {"Database"}, db : DatabaseErrors]

\* enum StateRootError (trie.rs lines 12-18)
StateRootErrors ==
    [type : {"StateRootError"}, variant : {"Database"}, db : DatabaseErrors]
    \cup [type : {"StateRootError"}, variant : {"StorageRootError"},
          storage : StorageRootErrors]

\* enum StateProofError (trie.rs lines 70-76)
StateProofErrors ==
    [type : {"StateProofError"}, variant : {"Database"}, db : DatabaseErrors]
    \cup [type : {"StateProofError"}, variant : {"Rlp"}, rlp : RlpErrors]

\* enum TrieWitnessError (trie.rs lines 102-118)
TrieWitnessErrors ==
    [type : {"TrieWitnessError"}, variant : {"Proof"}, proof : StateProofErrors]
    \cup [type : {"TrieWitnessError"}, variant : {"Rlp"}, rlp : RlpErrors]
    \cup [type : {"TrieWitnessError"},
          variant : {"MissingStorageMultiProof", "MissingAccount"}, hash : Vals]
    \cup [type : {"TrieWitnessError"}, variant : {"MissingTargetNode"},
          nibbles : NibblesSet]

\* Display of DatabaseError
DatabaseErrorFmt(e) == <<Lit(e.kind), Dec(e.code)>>

\* Display of alloy_rlp::Error
RlpErrorFmt(e) ==
    IF e.kind = "ListLengthMismatch"
      THEN <<Lit(e.kind), Dec(e.expected), Dec(e.got)>>
      ELSE <<Lit(e.kind)>>

\* Debug of Nibbles
RECURSIVE NibblesDigits(_)
NibblesDigits(n) ==
    IF n = <<>> THEN <<>> ELSE <<Hex(Head(n))>> \o NibblesDigits(Tail(n))
NibblesDebug(n) == <<Lit("Nibbles(")>> \o NibblesDigits(n) \o <<Lit(")")>>

\* derive(Display) for StateProofError: each variant prints its field
StateProofErrorDisplay(e) ==
    IF e.variant = "Database" THEN DatabaseErrorFmt(e.db) ELSE RlpErrorFmt(e.rlp)

\* derive(Display) for TrieWitnessError (trie.rs lines 102-118)
TrieWitnessErrorDisplay(e) ==
    CASE e.variant = "Proof" -> StateProofErrorDisplay(e.proof)
      [] e.variant = "Rlp" -> RlpErrorFmt(e.rlp)
      [] e.variant = "MissingStorageMultiProof" ->
           <<Lit("missing storage multiproof for "), Hex(e.hash)>>
      [] e.variant = "MissingAccount" -> <<Lit("missing account "), Hex(e.hash)>>
      [] e.variant = "MissingTargetNode" ->
           <<Lit("target node missing from proof ")>> \o NibblesDebug(e.nibbles)

\* impl From<StateRootError> for DatabaseError (trie.rs lines 34-41)
FromStateRootError(err) ==
    CASE err.variant = "Database" -> err.db
      [] err.variant = "StorageRootError" /\ err.storage.variant = "Database" ->
           err.storage.db

\* impl From<StateProofError> for ProviderError (trie.rs lines 92-99)
FromStateProofError(value) ==
    CASE value.variant = "Database" -> [variant |-> "Database", db |-> value.db]
      [] value.variant = "Rlp" -> [variant |-> "Rlp", rlp |-> value.rlp]

\* impl From<TrieWitnessError> for ProviderError (trie.rs lines 135-139)
FromTrieWitnessError_Unwrapping(value) ==
    CASE value.variant = "Proof" -> FromStateProofError(value.proof)
      [] value.variant = "Rlp" -> [variant |-> "Rlp", rlp |-> value.rlp]
      [] OTHER -> [variant |-> "TrieWitnessError",
                   text |-> TrieWitnessErrorDisplay(value)]
FromTrieWitnessError(value) ==
    [variant |-> "TrieWitnessError", text |-> TrieWitnessErrorDisplay(value)]

\* DatabaseError::from(err) for a StateRootError
StateRootErrorIntoDatabaseError ==
    /\ trie_in.type = "StateRootError"
    /\ trie_out = NoTrieOut
    /\ trie_out' = FromStateRootError(trie_in)
    /\ UNCHANGED <<trie_in, outsideTrie>>

\* ProviderError::from(value) for a StateProofError
StateProofErrorIntoProviderError ==
    /\ trie_in.type = "StateProofError"
    /\ trie_out = NoTrieOut
    /\ trie_out' = FromStateProofError(trie_in)
    /\ UNCHANGED <<trie_in, outsideTrie>>

\* ProviderError::from(value) for a TrieWitnessError
TrieWitnessErrorIntoProviderError ==
    /\ trie_in.type = "TrieWitnessError"
    /\ trie_out = NoTrieOut
    /\ trie_out' = FromTrieWitnessError(trie_in)
    /\ UNCHANGED <<trie_in, outsideTrie>>

\* a trie error has been raised and is about to be converted
InitTrie ==
    /\ RangeIdle
    /\ ErrorIdle
    /\ ConcIdle
    /\ trie_in \in StateRootErrors \cup StateProofErrors \cup TrieWitnessErrors
    /\ trie_out = NoTrieOut
    /\ ExExIdle

NextTrie ==
    \/ StateRootErrorIntoDatabaseError
    \/ StateProofErrorIntoProviderError
    \/ TrieWitnessErrorIntoProviderError

SpecTrie == InitTrie /\ [][NextTrie]_vars

(***************************************************************************)
(* ExExLauncher::launch                                                    *)
(*   crates/node/builder/src/launch/exex.rs                                *)
(***************************************************************************)
\* the ids execution extensions are installed under
ExExIds == {"e1", "e2"}

\* ExExHandle::new(id.clone())
ExExHandleNew(id) == [id |-> id]

\* line 40: extensions.is_empty()
NothingToLaunch_Never(exts) == FALSE
NothingToLaunch(exts) == exts = <<>>

\* line 83: future::join_all(exexs).await returns when every future is done
JoinAllDone_NoAwait(futures) == TRUE
JoinAllDone(futures) == \A i \in DOMAIN futures : futures[i].state = "spawned"

\* line 88: ExExManager::new(exex_handles, 1024)
ExExManagerNew(handles) == [handles |-> handles, capacity |-> 1024]

\* line 89: exex_manager.handle()
ManagerHandle(manager) == [manager |-> manager]

\* lines 38-46: entry; with no extension there is nothing to launch
LaunchEntry ==
    /\ lpc = "start"
    /\ IF NothingToLaunch(extensions)
         THEN /\ returned' = [tag |-> "None"]
              /\ lpc' = "returned"
         ELSE /\ lpc' = IF Len(extensions) = 0 THEN "join_all" ELSE "for"
              /\ UNCHANGED returned
    /\ UNCHANGED <<extensions, exex_handles, exexs, tasks, exex_manager,
                   subscriptions, outsideExEx>>

\* lines 48-81: one iteration of the for loop: a handle and a future that has
\* not been polled yet
CreateExEx ==
    /\ lpc = "for"
    /\ LET i == Len(exex_handles) + 1
           id == extensions[i]
       IN  /\ exex_handles' = Append(exex_handles, ExExHandleNew(id))
           /\ exexs' = Append(exexs, [id |-> id, state |-> "created"])
           /\ lpc' = IF i = Len(extensions) THEN "join_all" ELSE "for"
    /\ UNCHANGED <<extensions, tasks, exex_manager, subscriptions, returned,
                   outsideExEx>>

\* lines 64-70: join_all polls the futures in order; a future runs up to
\* exex.launch(context).await
PollExEx ==
    /\ lpc = "join_all"
    /\ \E i \in DOMAIN exexs :
          /\ exexs[i].state = "created"
          /\ \A j \in 1..(i - 1) : exexs[j].state # "created"
          /\ exexs' = [exexs EXCEPT ![i].state = "launching"]
    /\ UNCHANGED <<extensions, lpc, exex_handles, tasks, exex_manager,
                   subscriptions, returned, outsideExEx>>

\* lines 70-79: the init of an extension completes with Ok and the extension is
\* spawned as a critical task
ExExInitOk ==
    /\ lpc = "join_all"
    /\ \E i \in DOMAIN exexs :
          /\ exexs[i].state = "launching"
          /\ exexs' = [exexs EXCEPT ![i].state = "spawned"]
          /\ tasks' = Append(tasks, [name |-> "exex", id |-> exexs[i].id])
    /\ UNCHANGED <<extensions, lpc, exex_handles, exex_manager, subscriptions,
                   returned, outsideExEx>>

\* line 70: the init of an extension completes with Err and unwrap() panics
ExExInitErr ==
    /\ lpc = "join_all"
    /\ \E i \in DOMAIN exexs :
          /\ exexs[i].state = "launching"
          /\ exexs' = [exexs EXCEPT ![i].state = "panicked"]
    /\ lpc' = "panicked"
    /\ UNCHANGED <<extensions, exex_handles, tasks, exex_manager, subscriptions,
                   returned, outsideExEx>>

\* lines 83-92: join_all returns; the manager is created and spawned
SpawnManager ==
    /\ lpc = "join_all"
    /\ JoinAllDone(exexs)
    /\ exex_manager' = ExExManagerNew(exex_handles)
    /\ tasks' = Append(tasks, [name |-> "exex manager", id |-> ""])
    /\ lpc' = "subscribe"
    /\ UNCHANGED <<extensions, exex_handles, exexs, subscriptions, returned,
                   outsideExEx>>

\* lines 95-107: subscribe to canonical state, spawn the forwarding task
SpawnForwarder ==
    /\ lpc = "subscribe"
    /\ subscriptions' = subscriptions + 1
    /\ tasks' = Append(tasks,
           [name |-> "exex manager blockchain tree notifications", id |-> ""])
    /\ lpc' = "return"
    /\ UNCHANGED <<extensions, exex_handles, exexs, exex_manager, returned,
                   outsideExEx>>

\* line 111: Some(exex_manager_handle)
LaunchReturn ==
    /\ lpc = "return"
    /\ returned' = [tag |-> "Some", handle |-> ManagerHandle(exex_manager)]
    /\ lpc' = "returned"
    /\ UNCHANGED <<extensions, exex_handles, exexs, tasks, exex_manager,
                   subscriptions, outsideExEx>>

\* a launcher has been created with some extensions; launch is called
InitExEx ==
    /\ RangeIdle
    /\ ErrorIdle
    /\ ConcIdle
    /\ TrieIdle
    /\ extensions \in SeqsUpTo(ExExIds, MaxExts)
    /\ lpc = "start"
    /\ exex_handles = <<>>
    /\ exexs = <<>>
    /\ tasks = <<>>
    /\ exex_manager = NoManager
    /\ subscriptions = 0
    /\ returned = [tag |-> "Pending"]

NextExEx ==
    \/ LaunchEntry
    \/ CreateExEx
    \/ PollExEx
    \/ ExExInitOk
    \/ ExExInitErr
    \/ SpawnManager
    \/ SpawnForwarder
    \/ LaunchReturn

SpecExEx == InitExEx /\ [][NextExEx]_vars

(***************************************************************************)
(* Properties of validate_header_range                                     *)
(***************************************************************************)
Done == pc = "done"
N == Len(headers)
CallSet == {calls[c] : c \in 1..Len(calls)}

\* what the validator answers for the header at position i, standalone and
\* against the header right before it
StandaloneResult(i) == validate_header(badH, headers[i])
LinkageResult(i) == validate_header_against_parent(badP, headers[i], headers[i-1])
PassesHeader(i) == StandaloneResult(i).ok
PassesParent(i) == LinkageResult(i).ok

\* everything before position k is valid
ValidBefore(k) ==
    /\ \A j \in 1..(k-1) : PassesHeader(j)
    /\ \A j \in 2..(k-1) : PassesParent(j)

\* position k is the first one with a failing check
FirstFailAt(k) == ValidBefore(k) /\ (~PassesHeader(k) \/ ~PassesParent(k))

\* the error of the check that fails at position k >= 2 (the standalone check
\* runs first)
FailingError(k) ==
    IF ~PassesHeader(k) THEN StandaloneResult(k).err ELSE LinkageResult(k).err

AllValid ==
    /\ \A j \in 1..N : PassesHeader(j)
    /\ \A j \in 2..N : PassesParent(j)

\* C1: if header k (k >= 2) is the first with a failing check, the range call
\* fails with exactly header k and the error of the failing check, and no
\* call is ever made for a header after k.
C1_FailAtKAttributesKAndStops ==
    \A k \in 2..N :
        FirstFailAt(k) =>
            /\ \A c \in CallSet : c.pos <= k
            /\ Done => result = ReturnErr(
                           HeaderConsensusErrorNew(FailingError(k), headers[k]))

C1_Witness ==
    /\ Done
    /\ N = 3
    /\ FirstFailAt(2)
    /\ PassesHeader(2)
    /\ headers[1] # headers[2]

\* C2: when every header passes standalone and every adjacent pair passes the
\* parent check, the range call returns Ok.
C2_AllValidReturnsOk ==
    (Done /\ AllValid) => result = ReturnOk

C2_Witness ==
    /\ Done
    /\ N = 3
    /\ AllValid
    /\ badH # {}
    /\ badP # {}

\* C3: the range call returns Ok only if every header passed standalone and
\* every header after the first passed the parent check against the header
\* right before it.
C3_OkOnlyIfAllValid ==
    (Done /\ result = ReturnOk) => AllValid

C3_Witness ==
    /\ Done
    /\ result = ReturnOk
    /\ N = 3
    /\ Cardinality(badP) = MaxBadPairs

\* C4: if the first header fails standalone, the range call fails with that
\* error and the first header, having made that one call only.
C4_FirstHeaderFailureStops ==
    (N >= 1 /\ ~PassesHeader(1)) =>
        /\ \A c \in CallSet : c = CallHeader(1, headers[1])
        /\ Len(calls) <= 1
        /\ Done => result = ReturnErr(
                       HeaderConsensusErrorNew(StandaloneResult(1).err, headers[1]))

C4_Witness ==
    /\ Done
    /\ N = 3
    /\ ~PassesHeader(1)
    /\ headers[3] # headers[1]

\* C5: on an empty slice the range call returns Ok and makes no call.
C5_EmptyReturnsOkWithoutCalls ==
    N = 0 => /\ calls = <<>>
             /\ Done => result = ReturnOk

C5_Witness ==
    /\ Done
    /\ N = 0
    /\ badH # {}

\* what the validator answered to a logged call
CallResult(c) ==
    IF c.op = "validate_header"
      THEN validate_header(badH, c.header)
      ELSE validate_header_against_parent(badP, c.header, c.parent)

CallsOf(op) == {c \in 1..Len(calls) : calls[c].op = op}

\* C6: on a one-header slice the range call returns what validate_header
\* returns for that header (its error wrapped with the header), and the
\* parent check is never invoked.
C6_SingleHeaderEqualsValidateHeader ==
    N = 1 =>
        /\ CallsOf("validate_header_against_parent") = {}
        /\ Done => result = IF PassesHeader(1)
                              THEN ReturnOk
                              ELSE ReturnErr(HeaderConsensusErrorNew(
                                       StandaloneResult(1).err, headers[1]))

C6_Witness ==
    /\ Done
    /\ N = 1
    /\ result = ReturnOk
    /\ <<headers[1], headers[1]>> \in badP

\* C7: every parent check of the run directly follows the standalone check
\* of the same header, which passed; it is made for a header at position
\* i >= 2 with the header at position i-1 as parent; a header failing both
\* checks is reported with its standalone error.
C7_StandaloneBeforeParentCheck ==
    /\ \A c \in CallsOf("validate_header_against_parent") :
          /\ calls[c].pos >= 2
          /\ calls[c].header = headers[calls[c].pos]
          /\ calls[c].parent = headers[calls[c].pos - 1]
          /\ c >= 2
          /\ calls[c-1] = CallHeader(calls[c].pos, headers[calls[c].pos])
          /\ PassesHeader(calls[c].pos)
    /\ \A k \in 2..N :
          (Done /\ ValidBefore(k) /\ ~PassesHeader(k) /\ ~PassesParent(k)) =>
              /\ result = ReturnErr(HeaderConsensusErrorNew(
                              StandaloneResult(k).err, headers[k]))
              /\ \A c \in CallSet :
                    c.op = "validate_header_against_parent" => c.pos < k

C7_Witness ==
    /\ Done
    /\ N = 3
    /\ ValidBefore(3)
    /\ ~PassesHeader(3)
    /\ ~PassesParent(3)
    /\ headers[1] # headers[2]

\* the caller's contract: block numbers strictly increase along the slice
Ascending == \A i \in 1..(N-1) : headers[i].number < headers[i+1].number

\* C8: on an ascending slice no parent check is made with the header equal
\* to the parent, nor with the genesis header (number 0) as the header.
C8_ParentCheckInputContract ==
    Ascending =>
        \A c \in CallSet :
            c.op = "validate_header_against_parent" =>
                /\ c.header # c.parent
                /\ c.header.number # 0

C8_Witness ==
    /\ Done
    /\ Ascending
    /\ N = 3
    /\ headers[1].number = 0
    /\ Cardinality(CallsOf("validate_header_against_parent")) = 2

\* C9: no position of the slice is validated standalone twice or is the child
\* of two parent checks; a failing call is the last call and its error is the
\* result; a run returning Ok on n >= 1 headers made n standalone and n-1
\* parent checks.
C9_NoRetry ==
    /\ \A c, d \in 1..Len(calls) :
          (calls[c].op = calls[d].op /\ calls[c].pos = calls[d].pos) => c = d
    /\ \A c \in 1..Len(calls) :
          ~CallResult(calls[c]).ok =>
              /\ c = Len(calls)
              /\ Done
              /\ result.tag = "Err"
              /\ result.err.consensus_error = CallResult(calls[c]).err
    /\ (Done /\ result = ReturnOk /\ N >= 1) =>
          /\ Cardinality(CallsOf("validate_header")) = N
          /\ Cardinality(CallsOf("validate_header_against_parent")) = N - 1

C9_Witness ==
    /\ Done
    /\ N = 3
    /\ result.tag = "Err"
    /\ Len(calls) = 5
    /\ headers[1] = headers[3]

(***************************************************************************)
(* Properties of the error taxonomy                                        *)
(***************************************************************************)
Rendered == message # <<>>

\* the pair a Diff-style error carries, and how its values print
DiffPayload(e) ==
    CASE e.variant = "BlockGasUsed" -> e.gas
      [] e.variant = "ExcessBlobGasDiff" -> e.diff
      [] OTHER -> e.f0

DiffItem(e, v) == IF e.variant \in BoxedDiffVariants THEN Hex(v) ELSE Dec(v)

\* the message holds the observed value and the expected value
ReproducesBoth(msg, e) ==
    /\ \E i \in DOMAIN msg : msg[i] = DiffItem(e, DiffPayload(e).got)
    /\ \E j \in DOMAIN msg : msg[j] = DiffItem(e, DiffPayload(e).expected)

\* C10: the rendered message of every Diff-style variant reproduces both the
\* observed and the expected value.
C10_DisplayReproducesGotAndExpected ==
    (Rendered /\ error.variant \in DiffVariants) =>
        ReproducesBoth(message, error)

C12_StateRootPredicateIsExact ==
    error # NoError =>
        /\ is_state_root_error(error) <=> built.variant = "BodyStateRootDiff"
        /\ answer.asked =>
              (answer.value <=> built.variant = "BodyStateRootDiff")

C12_Witness ==
    /\ answer.asked
    /\ ~answer.value
    /\ built.variant = "BodyReceiptRootDiff"

\* part occurs in msg as a contiguous run of pieces
Contains(msg, part) ==
    \E i \in 0..(Len(msg) - Len(part)) :
        SubSeq(msg, i + 1, i + Len(part)) = part

\* C13: HeaderConsensusError::new(e, h) holds e and h unchanged, and its
\* message contains the message of e and the rendering of h.
C13_HeaderConsensusErrorKeepsAndRendersBoth ==
    hce # NoHce =>
        /\ hce.consensus_error = error
        /\ hce.sealed_header = built.header
        /\ hmessage # <<>> =>
              /\ Contains(hmessage, Display(error))
              /\ Contains(hmessage, SealedHeaderFmt(built.header))

C13_Witness ==
    /\ hmessage # <<>>
    /\ error.variant = "BaseFeeDiff"
    /\ built.header.number = 1

\* the body/header digest-mismatch variants
BodyDigestVariants ==
    {"BodyOmmersHashDiff", "BodyStateRootDiff", "BodyTransactionRootDiff",
     "BodyReceiptRootDiff", "BodyBloomLogDiff", "BodyWithdrawalsRootDiff",
     "BodyRequestsRootDiff"}

\* C17: for the same payload, the message of a digest-mismatch variant
\* differs from the message of every other digest-mismatch variant.
C17_DigestMessagesPairwiseDifferent ==
    (Rendered /\ error.variant \in BodyDigestVariants) =>
        \A v \in BodyDigestVariants \ {error.variant} :
            Display([variant |-> v, f0 |-> error.f0]) # message

(***************************************************************************)
(* Properties relating range calls                                         *)
(***************************************************************************)
IsPrefix(p, q) == Len(p) <= Len(q) /\ SubSeq(q, 1, Len(p)) = p

C15_ValidPrefix ==
    (Done /\ result.tag = "Err") =>
        LET k == calls[Len(calls)].pos
        IN  /\ result.err.sealed_header = headers[k]
            /\ FirstFailAt(k)
            /\ RangeRun(badH, badP, SubSeq(headers, 1, k - 1)).result = ReturnOk

C15_Witness ==
    /\ Done
    /\ result.tag = "Err"
    /\ N = 3
    /\ calls[Len(calls)].pos = 3
    /\ headers[3] = headers[1]

\* C16: for every split of the slice into non-empty A and B, the range call
\* on the whole slice returns Ok exactly when the range calls on A and on B
\* return Ok and the first header of B passes the parent check against the
\* last header of A.
C16_BatchSplitting ==
    Done =>
        \A m \in 1..(N - 1) :
            LET A == SubSeq(headers, 1, m)
                B == SubSeq(headers, m + 1, N)
            IN  result = ReturnOk <=>
                   /\ RangeRun(badH, badP, A).result = ReturnOk
                   /\ RangeRun(badH, badP, B).result = ReturnOk
                   /\ validate_header_against_parent(badP, B[1], A[m]).ok

C16_Witness ==
    /\ Done
    /\ N = 3
    /\ result.tag = "Err"
    /\ RangeRun(badH, badP, SubSeq(headers, 1, 2)).result = ReturnOk
    /\ RangeRun(badH, badP, SubSeq(headers, 3, 3)).result = ReturnOk

(***************************************************************************)
(* Properties of the trie error conversions                                *)
(***************************************************************************)
Converted == trie_out # NoTrieOut

\* the DatabaseError a StateRootError was raised for
UnderlyingDatabaseError(e) ==
    IF e.variant = "Database" THEN e.db ELSE e.storage.db

\* C18: every trie error can be converted; a StateRootError becomes the
\* DatabaseError inside it, a StateProofError becomes the ProviderError
\* variant of the same name around the same inner error, and a
\* TrieWitnessError of any variant becomes ProviderError::TrieWitnessError
\* holding its rendered text.
C18_TrieConversionsKeepFailure ==
    /\ ~Converted => ENABLED NextTrie
    /\ (Converted /\ trie_in.type = "StateRootError") =>
          /\ trie_out \in DatabaseErrors
          /\ trie_out = UnderlyingDatabaseError(trie_in)
    /\ (Converted /\ trie_in.type = "StateProofError") =>
          /\ trie_out.variant = trie_in.variant
          /\ trie_in.variant = "Database" => trie_out.db = trie_in.db
          /\ trie_in.variant = "Rlp" => trie_out.rlp = trie_in.rlp
    /\ (Converted /\ trie_in.type = "TrieWitnessError") =>
          /\ trie_out.variant = "TrieWitnessError"
          /\ trie_out.text = TrieWitnessErrorDisplay(trie_in)
          /\ trie_out.text # <<>>

C18_Witness ==
    /\ Converted
    /\ trie_in.type = "TrieWitnessError"
    /\ trie_in.variant = "Proof"
    /\ trie_in.proof.variant = "Database"

(***************************************************************************)
(* Properties of ExExLauncher::launch                                      *)
(***************************************************************************)
\* positions in the spawn log of the tasks with the given name
TasksNamed(name) == {t \in DOMAIN tasks : tasks[t].name = name}

ManagerTask == "exex manager"
ForwarderTask == "exex manager blockchain tree notifications"

\* C19: launch returns Some handle exactly when an extension is installed.
\* Without extensions it returns None and never creates a handle, spawns a
\* task, creates a manager or subscribes; with extensions, a launch that
\* returns gives the handle of the one manager it created.
C19_HandleIffExtensionsInstalled ==
    /\ extensions = <<>> =>
          /\ exex_handles = <<>>
          /\ exexs = <<>>
          /\ tasks = <<>>
          /\ exex_manager = NoManager
          /\ subscriptions = 0
          /\ returned.tag \in {"Pending", "None"}
    /\ lpc = "returned" =>
          /\ returned.tag = "Some" <=> extensions # <<>>
          /\ returned.tag = "None" <=> extensions = <<>>
          /\ extensions # <<>> =>
                /\ exex_manager # NoManager
                /\ returned.handle = ManagerHandle(exex_manager)
                /\ Cardinality(TasksNamed(ManagerTask)) = 1

C19_Witness ==
    /\ lpc = "returned"
    /\ Len(extensions) = 2
    /\ returned.tag = "Some"

\* C20: the manager exists only once every extension finished its init and
\* was spawned; in the spawn log every extension task precedes the manager
\* task and the manager task precedes the forwarding task; the manager holds
\* one handle per extension, in installation order.
C20_ManagerAfterExtensionsForwarderAfterManager ==
    /\ (exex_manager # NoManager \/ TasksNamed(ManagerTask) # {}) =>
          /\ Len(exexs) = Len(extensions)
          /\ \A i \in DOMAIN exexs : exexs[i].state = "spawned"
          /\ Cardinality(TasksNamed("exex")) = Len(extensions)
          /\ \A t \in TasksNamed("exex"), m \in TasksNamed(ManagerTask) : t < m
          /\ exex_manager.handles =
                [i \in 1..Len(extensions) |-> ExExHandleNew(extensions[i])]
    /\ (subscriptions > 0 \/ TasksNamed(ForwarderTask) # {}) =>
          /\ TasksNamed(ManagerTask) # {}
          /\ \A m \in TasksNamed(ManagerTask), f \in TasksNamed(ForwarderTask) :
                m < f

C20_Witness ==
    /\ TasksNamed(ForwarderTask) # {}
    /\ Len(extensions) = 3
    /\ extensions[1] # extensions[2]
    /\ tasks[1].id = extensions[2]

====
